---------------------------- MODULE Spec2Model ----------------------------
(***************************************************************************)
(* A model of the DocStream document engine: core/pdf_processing.py        *)
(* (_parse_page_range, split_pdf, merge_pdfs, rotate_pdf_pages,            *)
(* compress_pdf) and the branches of app.py that call it.                  *)
(*                                                                         *)
(* A string is a sequence of one-character strings.  A document is a       *)
(* sequence of pages; a page is a record [src, num, rot]: the file it was  *)
(* read from, its 1-based position in that file, and its /Rotate value.    *)
(***************************************************************************)
EXTENDS Integers, Sequences, FiniteSets, TLC

\* ------------------------------------------------------------------ bounds
\* Longest range string that is enumerated in full.
MaxLen == 3
\* Most pages of an input document.
MaxPages == 2
\* Most input files of one merge.
MaxDocs == 3
\* Most image references of a document, over all its pages.
MaxRefs == 3
\* Largest byte length of an image's data.
MaxBytes == 3

\* Most image files of one convert_images_to_pdf call.
MaxImages == 2

\* The characters range strings are built from: digits, the blank, the two
\* separators and one character that is none of them.
Digits == {"0", "1", "2", "3", "5", "8"}
Chars == {"0", "1", "2", "3", " ", ",", "-", "x"}

\* Python's None where a range string may stand: a value that is no string
\* of characters.
None == << "None" >>

\* Range strings longer than the enumerated ones, among them the examples of
\* the app's help text and of the documentation.
RangeExamples ==
    { <<"1", ",", " ", "3", "-", "5", ",", " ", "8">>,
      <<"1", ",", " ", "3", "-", "5">>,
      <<"5", "-", "2">>,
      <<" ", "1", " ", "-", " ", "2", " ">>,
      <<"2", " ", ",", " ", "1">>,
      <<"2", ",", "1", ",", "2">>,
      <<"3", ",", "0", ",", "1">>,
      <<"1", "-", "2", ",", "x">>,
      <<"1", ",", "3", "-", "1">>,
      <<"1", "-", "2", "-", "3">>,
      <<"0", "-", "1", "0">>,
      <<"1", " ", "2">>,
      <<"1", ",", ",", "2">> }

RECURSIVE StringsOfLen(_)
StringsOfLen(n) ==
    IF n = 0 THEN { <<>> }
    ELSE { Append(s, c) : s \in StringsOfLen(n - 1), c \in Chars }

StringsUpTo(n) == UNION { StringsOfLen(k) : k \in 0..n }

\* ------------------------------------------------------- Python primitives
\* s[a..b], empty when a > b.
Slice(s, a, b) == [i \in 1..(b - a + 1) |-> s[a + i - 1]]

\* c in s
Contains(s, c) == \E i \in 1..Len(s) : s[i] = c

\* s.split(sep) for a one-character sep: always at least one piece.
RECURSIVE Split(_, _)
Split(s, sep) ==
    IF ~Contains(s, sep) THEN << s >>
    ELSE LET i == CHOOSE k \in 1..Len(s) :
                      s[k] = sep /\ \A j \in 1..(k - 1) : s[j] # sep
         IN  << Slice(s, 1, i - 1) >> \o Split(Slice(s, i + 1, Len(s)), sep)

\* s.strip(): leading and trailing whitespace removed.
RECURSIVE Strip(_)
Strip(s) ==
    IF s = <<>> THEN s
    ELSE IF Head(s) = " " THEN Strip(Tail(s))
    ELSE IF s[Len(s)] = " " THEN Strip(Slice(s, 1, Len(s) - 1))
    ELSE s

DigitValue(c) ==
    CASE c = "0" -> 0 [] c = "1" -> 1 [] c = "2" -> 2 [] c = "3" -> 3
      [] c = "5" -> 5 [] c = "8" -> 8

RECURSIVE DecimalValue(_)
DecimalValue(s) ==
    IF s = <<>> THEN 0
    ELSE 10 * DecimalValue(Slice(s, 1, Len(s) - 1)) + DigitValue(s[Len(s)])

\* int(s): surrounding whitespace is ignored, what is left must be a non-empty
\* run of digits.  (int also takes a sign and underscores; "-" never reaches
\* it, see ParsePart, and Chars holds neither "+" nor "_".)
PyIntOk(s) ==
    LET t == Strip(s) IN t # <<>> /\ \A i \in 1..Len(t) : t[i] \in Digits

PyInt(s) == DecimalValue(Strip(s))

\* ---------------------------------------------------------- _parse_page_range
\* range(a, b) as a set.
PyRange(a, b) == a..(b - 1)

\* An iteration that keeps a single page number as it is written, 1-based.
ParsePartOneBased(part) ==
    IF Contains(part, "-")
    THEN LET fields == Split(part, "-")
         IN  IF Len(fields) = 2 /\ PyIntOk(fields[1]) /\ PyIntOk(fields[2])
             THEN [ok |-> TRUE,
                   pages |-> PyRange(PyInt(fields[1]) - 1, PyInt(fields[2]))]
             ELSE [ok |-> FALSE, pages |-> {}]
    ELSE IF PyIntOk(part)
         THEN [ok |-> TRUE, pages |-> { PyInt(part) }]
         ELSE [ok |-> FALSE, pages |-> {}]

\* One iteration of the loop over parts: [ok, pages], ok = FALSE for a
\* ValueError (from int, or from unpacking other than two values).
ParsePart(part) ==
    IF Contains(part, "-")
    THEN LET fields == Split(part, "-")
         IN  IF Len(fields) = 2 /\ PyIntOk(fields[1]) /\ PyIntOk(fields[2])
             THEN [ok |-> TRUE,
                   pages |-> PyRange(PyInt(fields[1]) - 1, PyInt(fields[2]))]
             ELSE [ok |-> FALSE, pages |-> {}]
    ELSE IF PyIntOk(part)
         THEN [ok |-> TRUE, pages |-> { PyInt(part) - 1 }]
         ELSE [ok |-> FALSE, pages |-> {}]

\* [status, pages]: the returned set, or the ValueError raised in its place.
_parse_page_range(range_str, n_pages) ==
    LET parts == [k \in 1..Len(Split(range_str, ",")) |->
                      Strip(Split(range_str, ",")[k])]
        done  == [k \in 1..Len(parts) |-> ParsePart(parts[k])]
    IN  IF \A k \in 1..Len(parts) : done[k].ok
        THEN [status |-> "ok",
              pages  |-> UNION { done[k].pages : k \in 1..Len(parts) }]
        ELSE [status |-> "ValueError", pages |-> {}]

\* ---------------------------------------------------------------- documents
\* The document read from file src: n pages, each with /Rotate r.
Doc(src, n, r) == [j \in 1..n |-> [src |-> src, num |-> j, rot |-> r]]

\* ---------------------------------------------------------------- split_pdf
\* A sort that puts the largest index first.
RECURSIVE SortedDescending(_)
SortedDescending(S) ==
    IF S = {} THEN <<>>
    ELSE LET m == CHOOSE x \in S : \A y \in S : x >= y
         IN  << m >> \o SortedDescending(S \ {m})

\* sorted(list(selected_pages))
RECURSIVE Sorted(_)
Sorted(S) ==
    IF S = {} THEN <<>>
    ELSE LET m == CHOOSE x \in S : \A y \in S : x <= y
         IN  << m >> \o Sorted(S \ {m})

\* The test that guards writer.add_page(reader.pages[page_num]).
InDocument(page_num, n_pages) == 0 <= page_num /\ page_num < n_pages

\* The loop over sorted_pages: the pages added to the writer, and the page
\* numbers of the warnings logged, in the order of the loop.
RECURSIVE SplitLoop(_, _)
SplitLoop(doc, sorted_pages) ==
    IF sorted_pages = <<>> THEN [pages |-> <<>>, warned |-> <<>>]
    ELSE LET page_num == Head(sorted_pages)
             rest     == SplitLoop(doc, Tail(sorted_pages))
         IN  IF InDocument(page_num, Len(doc))
             THEN [pages  |-> << doc[page_num + 1] >> \o rest.pages,
                   warned |-> rest.warned]
             ELSE [pages  |-> rest.pages,
                   warned |-> << page_num + 1 >> \o rest.warned]

\* split_pdf: the ValueError of the parser is not caught here.
split_pdf(doc, range_str) ==
    LET parsed == _parse_page_range(range_str, Len(doc))
        looped == SplitLoop(doc, Sorted(parsed.pages))
    IN  IF parsed.status = "ValueError"
        THEN [status |-> "ValueError", selected |-> {}, doc |-> <<>>,
              warned |-> <<>>]
        ELSE [status |-> "ok", selected |-> parsed.pages,
              doc |-> looped.pages, warned |-> looped.warned]

\* --------------------------------------------------------------- merge_pdfs
\* A loop that puts each file in front of what was merged before it.
RECURSIVE MergeLoopPrepending(_)
MergeLoopPrepending(files) ==
    IF files = <<>> THEN <<>>
    ELSE MergeLoopPrepending(Tail(files)) \o Head(files)

\* The loop of merger.append(pdf_file): every page of each file, file by file.
RECURSIVE MergeLoop(_)
MergeLoop(files) ==
    IF files = <<>> THEN <<>>
    ELSE Head(files) \o MergeLoop(Tail(files))

\* merge_pdfs makes no test of len(pdf_files).
merge_pdfs(files) == [status |-> "ok", doc |-> MergeLoop(files)]

\* The Rotate values of a well-formed page.
Rotations == {0, 90, 180, 270}

\* The lists of k uploaded files: file i has 1..MaxPages pages, all with the
\* same /Rotate.
UploadsOfLen(k) ==
    { [i \in 1..k |-> Doc(i, f[i][1], f[i][2])] :
        f \in [1..k -> (1..MaxPages) \X Rotations] }

\* --------------------------------------------------------- rotate_pdf_pages
\* The angles the app offers and the docstring names.
Angles == {90, 180, 270}

\* "if page_range": None and the empty string are both false.
Truthy(range_str) == range_str # None /\ range_str # <<>>

\* A test that takes the parsed set for 1-based page numbers.
ShouldRotateOneBased(range_str, i, pages_to_rotate) ==
    ~Truthy(range_str) \/ (i + 1) \in pages_to_rotate

\* "if not page_range or i in pages_to_rotate", i the zero-based index.
ShouldRotate(range_str, i, pages_to_rotate) ==
    ~Truthy(range_str) \/ i \in pages_to_rotate

\* writer.pages[-1].rotate(rotation): pypdf's PageObject.rotate stores the
\* page's current /Rotate plus the angle, as it is.
PageRotate(page, angle) == [page EXCEPT !.rot = @ + angle]

rotate_pdf_pages(doc, angle, range_str) ==
    LET parsed == IF Truthy(range_str)
                  THEN _parse_page_range(range_str, Len(doc))
                  ELSE [status |-> "ok", pages |-> {}]
    IN  IF parsed.status = "ValueError"
        THEN [status |-> "ValueError", doc |-> <<>>]
        ELSE [status |-> "ok",
              doc |-> [k \in 1..Len(doc) |->
                          IF ShouldRotate(range_str, k - 1, parsed.pages)
                          THEN PageRotate(doc[k], angle)
                          ELSE doc[k]]]

\* ------------------------------------------------------------- compress_pdf
\* The image resources of a document.
ImageIds == {"Im1", "Im2"}

\* The byte lengths re-encoding an image as JPEG may give.  The codec is not
\* part of the program: any length is possible at any quality, and so is an
\* exception out of Image.open, convert or save.
CompressedLengths == 1..(MaxBytes + 1)

\* The place after <<p, j>> in "for page in writer.pages: if page.images:
\* for image in page.images", <<0, 0>> when the loops are over.  The place
\* before the first page is <<0, 0>> as well.
NextPlace(refs, place) ==
    IF place[1] >= 1 /\ place[2] < Len(refs[place[1]])
    THEN << place[1], place[2] + 1 >>
    ELSE LET later == { p \in (place[1] + 1)..Len(refs) : refs[p] # <<>> }
         IN  IF later = {} THEN << 0, 0 >>
             ELSE << CHOOSE p \in later : \A q \in later : p <= q, 1 >>

\* A handler that leaves both loops, as a "break" out of them would.
AbortLoops(refs, place) == << 0, 0 >>

\* "except Exception as e: log.warning(...); continue": the place the loops
\* go on at after an exception in the iteration at place.
AfterException(refs, place) == NextPlace(refs, place)

\* A test that also replaces data of the same length.
SmallerOrEqual(compressed_len, data_len) == compressed_len <= data_len

\* "if len(compressed_data) < len(image.data)"
Smaller(compressed_len, data_len) == compressed_len < data_len

\* ------------------------------------------------- encrypt_pdf, decrypt_pdf
\* The passwords of the calls, none of them empty.
Passwords == {"pw", "other"}

\* A PDF stream without an /Encrypt entry.
Plain(pages) == [pages |-> pages, encrypted |-> FALSE, password |-> ""]

\* writer.encrypt(password) and writer.write: a stream that password unlocks.
Encrypted(pages, password) ==
    [pages |-> pages, encrypted |-> TRUE, password |-> password]

\* reader.decrypt(password): the reader is unlocked if the password is the
\* stream's, and left locked otherwise.  It raises in neither case, and
\* decrypt_pdf does not look at what it returns.
ReaderDecrypt(file, password) == file.encrypted /\ password = file.password

\* A reader that hands out no pages of a stream it has not unlocked, without
\* raising.
ReaderPagesUnchecked(file, unlocked) ==
    [status |-> "ok",
     pages |-> IF file.encrypted /\ ~unlocked THEN <<>> ELSE file.pages]

\* reader.pages: pypdf raises FileNotDecryptedError on reading the objects
\* of an encrypted stream that has not been unlocked.
ReaderPages(file, unlocked) ==
    IF file.encrypted /\ ~unlocked
    THEN [status |-> "FileNotDecryptedError", pages |-> <<>>]
    ELSE [status |-> "ok", pages |-> file.pages]

\* A loop that adds each page in front of the pages added before it.
RECURSIVE CopyPagesReversed(_)
CopyPagesReversed(pages) ==
    IF pages = <<>> THEN <<>>
    ELSE CopyPagesReversed(Tail(pages)) \o << Head(pages) >>

\* "for page in reader.pages: writer.add_page(page)"
RECURSIVE CopyPages(_)
CopyPages(pages) ==
    IF pages = <<>> THEN <<>>
    ELSE << Head(pages) >> \o CopyPages(Tail(pages))

\* What a call that raised hands back: no stream.  The except clause logs
\* the error and raises it again.
Raised(error, warned) ==
    [status |-> error, returned |-> FALSE, doc |-> Plain(<<>>),
     warned |-> warned, error_logged |-> TRUE]

Returned(doc, warned) ==
    [status |-> "ok", returned |-> TRUE, doc |-> doc,
     warned |-> warned, error_logged |-> FALSE]

encrypt_pdf(file, password) ==
    LET read == ReaderPages(file, FALSE)
    IN  IF read.status # "ok" THEN Raised(read.status, FALSE)
        ELSE Returned(Encrypted(CopyPages(read.pages), password), FALSE)

decrypt_pdf(file, password) ==
    LET unlocked == IF file.encrypted THEN ReaderDecrypt(file, password)
                    ELSE FALSE
        warned   == ~file.encrypted
        read     == ReaderPages(file, unlocked)
    IN  IF read.status # "ok" THEN Raised(read.status, warned)
        ELSE Returned(Plain(CopyPages(read.pages)), warned)

\* ---------------------------------------------------- convert_images_to_pdf
\* The extensions of the uploaded image files.
Suffixes == {".png", ".jpg"}

\* The calls of an iteration that come before its temporary file exists, and
\* those that come after.  Any of them may raise.
CallsBeforeFile == {"seek", "splitext", "mkstemp"}

CallsAfterFile == {"close", "open", "write", "Image.open", "size", "aspect",
                   "drawImage", "showPage"}

\* tempfile.mkstemp(suffix=suffix): a file of a name no file made before has.
Mkstemp(made, suffix) == << "tmp", Cardinality(made) + 1, suffix >>

\* A finally clause that removes nothing.
LeaveTempFile(temp_path, files) == files

\* "finally: if temp_img_path and os.path.exists(temp_img_path):
\* os.remove(temp_img_path)"
Finally(temp_path, files) ==
    IF temp_path # None /\ temp_path \in files
    THEN files \ { temp_path }
    ELSE files

\* ------------------------------------------------------------------- state
VARIABLES
    op,             \* the engine function that ran last ("none" before any)
    page_range,     \* the range string argument, or None
    total_pages,    \* the total_pages argument of _parse_page_range
    pdf_file,       \* the input document of split_pdf and rotate_pdf_pages
    pdf_files,      \* the list of input documents of merge_pdfs
    rotation,       \* the angle argument of rotate_pdf_pages (0 before a call)
    previous,       \* the input document and angle of the rotation before
    page_images,    \* compress_pdf: per page, the image resources of page.images
    images,         \* compress_pdf: each image resource's data and tallies
    cursor,         \* compress_pdf: the page and the image the loops are at
    images_found,   \* compress_pdf: its counter of that name
    images_compressed,  \* compress_pdf: its counter of that name
    last,           \* compress_pdf: what the latest iteration did
    warnings,       \* compress_pdf: the number of log.warning records
    file,           \* encrypt_pdf, decrypt_pdf: the stream given to the call
    password,       \* encrypt_pdf, decrypt_pdf: the password argument
    made_from,      \* the pages and password encrypt_pdf made file from
    image_files,    \* convert_images_to_pdf: the uploaded images' extensions
    index,          \* convert_images_to_pdf: the image the loop is at, from 1
    pc,             \* convert_images_to_pdf: the place in the iteration
    temp_img_path,  \* convert_images_to_pdf: its variable of that name
    temp_files,     \* the temporary files that exist
    made,           \* the temporary files mkstemp made in this call
    shown_pages,    \* the pages c.showPage() closed
    pending,        \* the call whose exception is under way ("none" if none)
    result          \* what the call returned or raised

docVars == << page_range, total_pages, pdf_file, pdf_files, rotation, previous >>

compressVars == << page_images, images, cursor, images_found,
                   images_compressed, last, warnings >>

securityVars == << file, password, made_from >>

convertVars == << image_files, index, pc, temp_img_path, temp_files, made,
                  shown_pages, pending >>

otherVars == << securityVars, convertVars >>

vars == << op, docVars, compressVars, otherVars, result >>

NoResult == [status |-> "none", pages |-> {}]

NoPrevious == [pdf_file |-> <<>>, rotation |-> 0]

NoVisit == [image |-> "none", place |-> << 0, 0 >>, before |-> 0,
            count_before |-> 0, codec_raised |-> FALSE, compressed |-> 0,
            replaced |-> FALSE, warned |-> FALSE]

\* The compress_pdf variables of a run that never calls it.
NoCompress ==
    /\ page_images = <<>>
    /\ images = <<>>
    /\ cursor = << 0, 0 >>
    /\ images_found = 0
    /\ images_compressed = 0
    /\ last = NoVisit
    /\ warnings = 0

\* file before encrypt_pdf made any stream.
NoSource == [pages |-> <<>>, password |-> ""]

\* The encrypt_pdf and decrypt_pdf variables of a run that never calls them.
NoSecurity ==
    /\ file = Plain(<<>>)
    /\ password = ""
    /\ made_from = NoSource

\* The convert_images_to_pdf variables of a run that never calls it.
NoConvert ==
    /\ image_files = <<>>
    /\ index = 0
    /\ pc = "none"
    /\ temp_img_path = None
    /\ temp_files = {}
    /\ made = {}
    /\ shown_pages = 0
    /\ pending = "none"

NoOther == NoSecurity /\ NoConvert

\* ------------------------------------------- _parse_page_range on its own
InitParse ==
    /\ op = "none"
    /\ page_range \in StringsUpTo(MaxLen) \cup RangeExamples
    /\ total_pages \in (1..MaxPages) \cup {10}
    /\ pdf_file = <<>>
    /\ pdf_files = <<>>
    /\ rotation = 0
    /\ previous = NoPrevious
    /\ NoCompress
    /\ NoOther
    /\ result = NoResult

CallParsePageRange ==
    /\ op = "none"
    /\ op' = "_parse_page_range"
    /\ result' = _parse_page_range(page_range, total_pages)
    /\ UNCHANGED << docVars, compressVars, otherVars >>

NextParse == CallParsePageRange

SpecParse == InitParse /\ [][NextParse]_vars


\* ----------------------------------------------------------------- split_pdf
InitSplit ==
    /\ op = "none"
    /\ page_range \in StringsUpTo(MaxLen) \cup RangeExamples
    /\ total_pages = 0
    /\ pdf_file \in { Doc(1, n, 0) : n \in 1..MaxPages }
    /\ pdf_files = <<>>
    /\ rotation = 0
    /\ previous = NoPrevious
    /\ NoCompress
    /\ NoOther
    /\ result = NoResult

CallSplitPdf ==
    /\ op = "none"
    /\ op' = "split_pdf"
    /\ result' = split_pdf(pdf_file, page_range)
    /\ UNCHANGED << docVars, compressVars, otherVars >>

NextSplit == CallSplitPdf

SpecSplit == InitSplit /\ [][NextSplit]_vars


\* ---------------------------------------------------------------- merge_pdfs
InitMerge ==
    /\ op = "none"
    /\ page_range = None
    /\ total_pages = 0
    /\ pdf_file = <<>>
    /\ pdf_files \in UNION { UploadsOfLen(k) : k \in 0..MaxDocs }
    /\ rotation = 0
    /\ previous = NoPrevious
    /\ NoCompress
    /\ NoOther
    /\ result = NoResult

\* merge_pdfs called with any list of files.
CallMergePdfs ==
    /\ op = "none"
    /\ op' = "merge_pdfs"
    /\ result' = merge_pdfs(pdf_files)
    /\ UNCHANGED << docVars, compressVars, otherVars >>

\* The "Merge PDFs" branch of app.py once the button is pressed: nothing is
\* shown for an empty upload list, a warning for a single file.
AppMergeBranch ==
    /\ op = "none"
    /\ pdf_files # <<>>
    /\ op' = "app_merge"
    /\ result' = IF Len(pdf_files) < 2
                 THEN [status |-> "warning", doc |-> <<>>]
                 ELSE merge_pdfs(pdf_files)
    /\ UNCHANGED << docVars, compressVars, otherVars >>

NextMerge == CallMergePdfs \/ AppMergeBranch

SpecMerge == InitMerge /\ [][NextMerge]_vars


\* ---------------------------------------------------------- rotate_pdf_pages
RangeInputs == StringsUpTo(MaxLen) \cup RangeExamples

InitRotate ==
    /\ op = "none"
    /\ page_range = None
    /\ total_pages = 0
    /\ pdf_file \in { Doc(1, n, r) : n \in 1..MaxPages, r \in Rotations }
    /\ pdf_files = <<>>
    /\ rotation = 0
    /\ previous = NoPrevious
    /\ NoCompress
    /\ NoOther
    /\ result = NoResult

\* rotate_pdf_pages called with any angle and any range, None included.
CallRotatePdfPages ==
    /\ op = "none"
    /\ \E angle \in Angles, range_str \in RangeInputs \cup {None} :
         /\ rotation' = angle
         /\ page_range' = range_str
         /\ result' = rotate_pdf_pages(pdf_file, angle, range_str)
    /\ op' = "rotate_pdf_pages"
    /\ UNCHANGED << total_pages, pdf_file, pdf_files, previous, compressVars,
                    otherVars >>

\* The "Rotate PDF" branch of app.py once the button is pressed: page_range
\* is None for "All Pages" and the text input for "Specific Pages", where an
\* empty text gives a warning and no call.
AppRotateBranch ==
    /\ op = "none"
    /\ \E angle \in Angles, rotation_scope \in {"All Pages", "Specific Pages"},
          text \in RangeInputs :
         LET range_str == IF rotation_scope = "Specific Pages"
                          THEN text ELSE None
         IN  /\ rotation' = angle
             /\ page_range' = range_str
             /\ result' =
                  IF rotation_scope = "Specific Pages" /\ ~Truthy(range_str)
                  THEN [status |-> "warning", doc |-> <<>>]
                  ELSE rotate_pdf_pages(pdf_file, angle, range_str)
    /\ op' = "app_rotate"
    /\ UNCHANGED << total_pages, pdf_file, pdf_files, previous, compressVars,
                    otherVars >>

\* The rotated document is fed back in, with the same range and any angle.
RotateAgain ==
    /\ op \in {"rotate_pdf_pages", "app_rotate"}
    /\ result.status = "ok"
    /\ \E angle \in Angles :
         /\ rotation' = angle
         /\ result' = rotate_pdf_pages(result.doc, angle, page_range)
    /\ previous' = [pdf_file |-> pdf_file, rotation |-> rotation]
    /\ pdf_file' = result.doc
    /\ op' = "rotate_again"
    /\ UNCHANGED << page_range, total_pages, pdf_files, compressVars, otherVars >>

NextRotate == CallRotatePdfPages \/ AppRotateBranch \/ RotateAgain

SpecRotate == InitRotate /\ [][NextRotate]_vars


\* -------------------------------------------------------------- compress_pdf
\* The image lists a page may have: page.images has one entry per name of
\* the page's resources, each name a resource of its own.
PageImageLists(j) ==
    { l \in [1..j -> ImageIds] : \A a, b \in 1..j : l[a] = l[b] => a = b }

\* The ways to put k image references on n pages, page by page.
RECURSIVE Layouts(_, _)
Layouts(n, k) ==
    IF n = 0 THEN (IF k = 0 THEN { <<>> } ELSE {})
    ELSE UNION { { << first >> \o rest : first \in PageImageLists(j),
                                          rest \in Layouts(n - 1, k - j) } :
                 j \in 0..k }

\* An image resource before compress_pdf: the length of its data, that length
\* again for later comparison, and how often it was replaced, visited and
\* given up on after the codec raised.
NewImage(size) == [size |-> size, original |-> size, replaced |-> 0,
                   visits |-> 0, failed |-> 0]

InitCompress ==
    /\ op = "none"
    /\ page_range = None
    /\ total_pages = 0
    /\ pdf_file = <<>>
    /\ pdf_files = <<>>
    /\ rotation = 0
    /\ previous = NoPrevious
    /\ page_images \in UNION { Layouts(n, k) : n \in 1..MaxPages,
                                               k \in 0..MaxRefs }
    /\ images \in { [i \in ImageIds |-> NewImage(size[i])] :
                      size \in [ImageIds -> 1..MaxBytes] }
    /\ cursor = << 0, 0 >>
    /\ images_found = 0
    /\ images_compressed = 0
    /\ last = NoVisit
    /\ warnings = 0
    /\ NoOther
    /\ result = NoResult

\* compress_pdf up to its loops: the pages are copied to the writer and the
\* counters set to zero.
CallCompressPdf ==
    /\ op = "none"
    /\ op' = "compress_pdf"
    /\ cursor' = NextPlace(page_images, << 0, 0 >>)
    /\ images_found' = 0
    /\ images_compressed' = 0
    /\ UNCHANGED << docVars, otherVars, page_images, images, last, warnings,
                    result >>

\* One iteration of the inner loop, for the image at the cursor.  The codec
\* gives any outcome; image.replace may itself raise.  Every exception is
\* caught by the iteration's except clause.
CompressImage ==
    /\ op = "compress_pdf"
    /\ cursor # << 0, 0 >>
    /\ \E codec_raises \in BOOLEAN, compressed \in CompressedLengths,
          replace_raises \in BOOLEAN :
         LET image    == page_images[cursor[1]][cursor[2]]
             before   == images[image].size
             replaces == /\ ~codec_raises
                         /\ Smaller(compressed, before)
                         /\ ~replace_raises
             raised   == \/ codec_raises
                         \/ Smaller(compressed, before) /\ replace_raises
         IN  /\ images_found' = images_found + 1
             /\ images_compressed' =
                  IF replaces THEN images_compressed + 1
                  ELSE images_compressed
             /\ images' =
                  [images EXCEPT
                     ![image] = [size     |-> IF replaces THEN compressed
                                              ELSE @.size,
                                 original |-> @.original,
                                 replaced |-> IF replaces THEN @.replaced + 1
                                              ELSE @.replaced,
                                 visits   |-> @.visits + 1,
                                 failed   |-> IF codec_raises THEN @.failed + 1
                                              ELSE @.failed]]
             /\ warnings' = IF raised THEN warnings + 1 ELSE warnings
             /\ last' = [image |-> image, place |-> cursor,
                         before |-> before,
                         count_before |-> images_compressed,
                         codec_raised |-> codec_raises,
                         compressed |-> IF codec_raises THEN 0 ELSE compressed,
                         replaced |-> replaces, warned |-> raised]
             /\ cursor' = IF raised THEN AfterException(page_images, cursor)
                          ELSE NextPlace(page_images, cursor)
    /\ UNCHANGED << op, docVars, otherVars, page_images, result >>

\* compress_pdf after its loops: the counts are logged and the writer's
\* document is returned.
FinishCompressPdf ==
    /\ op = "compress_pdf"
    /\ cursor = << 0, 0 >>
    /\ op' = "compress_pdf_done"
    /\ result' = [status |-> "ok",
                  images_found |-> images_found,
                  images_compressed |-> images_compressed]
    /\ UNCHANGED << docVars, compressVars, otherVars >>

NextCompress == CallCompressPdf \/ CompressImage \/ FinishCompressPdf

SpecCompress == InitCompress /\ [][NextCompress]_vars

\* ------------------------------------------------ encrypt_pdf, decrypt_pdf
\* The uploaded stream is a plain document or one some password unlocks.
InitSecurity ==
    /\ op = "none"
    /\ page_range = None
    /\ total_pages = 0
    /\ pdf_file = <<>>
    /\ pdf_files = <<>>
    /\ rotation = 0
    /\ previous = NoPrevious
    /\ NoCompress
    /\ \E n \in 1..MaxPages, r \in Rotations :
         file \in { Plain(Doc(1, n, r)) }
                    \cup { Encrypted(Doc(1, n, r), pw) : pw \in Passwords }
    /\ password = ""
    /\ made_from = NoSource
    /\ NoConvert
    /\ result = NoResult

CallEncryptPdf ==
    /\ op = "none"
    /\ \E pw \in Passwords :
         /\ password' = pw
         /\ result' = encrypt_pdf(file, pw)
    /\ op' = "encrypt_pdf"
    /\ UNCHANGED << docVars, compressVars, convertVars, file, made_from >>

CallDecryptPdf ==
    /\ op = "none"
    /\ \E pw \in Passwords :
         /\ password' = pw
         /\ result' = decrypt_pdf(file, pw)
    /\ op' = "decrypt_pdf"
    /\ UNCHANGED << docVars, compressVars, convertVars, file, made_from >>

\* The stream a call returned is given to the next call, as the stream of
\* encrypt_pdf is given to decrypt_pdf in test_security_logging.
PassOn ==
    /\ op \in {"encrypt_pdf", "decrypt_pdf"}
    /\ result.status = "ok"
    /\ file' = result.doc
    /\ made_from' = IF op = "encrypt_pdf"
                    THEN [pages |-> file.pages, password |-> password]
                    ELSE NoSource
    /\ password' = ""
    /\ op' = "none"
    /\ result' = NoResult
    /\ UNCHANGED << docVars, compressVars, convertVars >>

NextSecurity == CallEncryptPdf \/ CallDecryptPdf \/ PassOn

SpecSecurity == InitSecurity /\ [][NextSecurity]_vars

\* --------------------------------------------------- convert_images_to_pdf
InitConvert ==
    /\ op = "none"
    /\ page_range = None
    /\ total_pages = 0
    /\ pdf_file = <<>>
    /\ pdf_files = <<>>
    /\ rotation = 0
    /\ previous = NoPrevious
    /\ NoCompress
    /\ NoSecurity
    /\ image_files \in UNION { [1..k -> Suffixes] : k \in 1..MaxImages }
    /\ index = 0
    /\ pc = "none"
    /\ temp_img_path = None
    /\ temp_files = {}
    /\ made = {}
    /\ shown_pages = 0
    /\ pending = "none"
    /\ result = NoResult

\* convert_images_to_pdf up to its loop: the canvas is made.
CallConvertImagesToPdf ==
    /\ op = "none"
    /\ op' = "convert_images_to_pdf"
    /\ pc' = "for"
    /\ UNCHANGED << docVars, compressVars, securityVars, image_files, index,
                    temp_img_path, temp_files, made, shown_pages, pending,
                    result >>

\* "for i, img_file in enumerate(image_files): temp_img_path = None"
NextImage ==
    /\ pc = "for"
    /\ index < Len(image_files)
    /\ index' = index + 1
    /\ temp_img_path' = None
    /\ pc' = "try"
    /\ UNCHANGED << op, docVars, compressVars, securityVars, image_files,
                    temp_files, made, shown_pages, pending, result >>

\* The try block up to mkstemp: the temporary file is made and its path
\* kept, unless one of the calls raises.
CreateTempFile ==
    /\ pc = "try"
    /\ \E raises \in CallsBeforeFile \cup {"none"} :
         IF raises = "none"
         THEN LET path == Mkstemp(made, image_files[index])
              IN  /\ temp_img_path' = path
                  /\ temp_files' = temp_files \cup { path }
                  /\ made' = made \cup { path }
                  /\ pc' = "file"
                  /\ UNCHANGED pending
         ELSE /\ pending' = raises
              /\ pc' = "except"
              /\ UNCHANGED << temp_img_path, temp_files, made >>
    /\ UNCHANGED << op, docVars, compressVars, securityVars, image_files,
                    index, shown_pages, result >>

\* The rest of the try block: the image is written to the file, measured
\* and drawn and its page closed, unless one of the calls raises.
DrawImage ==
    /\ pc = "file"
    /\ \E raises \in CallsAfterFile \cup {"none"} :
         IF raises = "none"
         THEN /\ shown_pages' = shown_pages + 1
              /\ pc' = "finally"
              /\ UNCHANGED pending
         ELSE /\ pending' = raises
              /\ pc' = "except"
              /\ UNCHANGED shown_pages
    /\ UNCHANGED << op, docVars, compressVars, securityVars, image_files,
                    index, temp_img_path, temp_files, made, result >>

\* "except Exception as e: log.error(...); raise": the exception goes on
\* through the finally clause.
Except ==
    /\ pc = "except"
    /\ pc' = "finally"
    /\ UNCHANGED << op, docVars, compressVars, securityVars, image_files,
                    index, temp_img_path, temp_files, made, shown_pages,
                    pending, result >>

\* The finally clause, and after it the next turn of the loop or the
\* exception leaving convert_images_to_pdf.
FinallyClause ==
    /\ pc = "finally"
    /\ temp_files' = Finally(temp_img_path, temp_files)
    /\ IF pending = "none"
       THEN /\ pc' = "for"
            /\ UNCHANGED << op, result >>
       ELSE /\ pc' = "raised"
            /\ op' = "convert_images_to_pdf_done"
            /\ result' = [status |-> pending, returned |-> FALSE, pages |-> 0]
    /\ UNCHANGED << docVars, compressVars, securityVars, image_files, index,
                    temp_img_path, made, shown_pages, pending >>

\* After the loop: "c.save(); pdf_bytes.seek(0); return pdf_bytes".
FinishConvert ==
    /\ pc = "for"
    /\ index = Len(image_files)
    /\ pc' = "returned"
    /\ op' = "convert_images_to_pdf_done"
    /\ result' = [status |-> "ok", returned |-> TRUE, pages |-> shown_pages]
    /\ UNCHANGED << docVars, compressVars, securityVars, image_files, index,
                    temp_img_path, temp_files, made, shown_pages, pending >>

NextConvert ==
    \/ CallConvertImagesToPdf
    \/ NextImage
    \/ CreateTempFile
    \/ DrawImage
    \/ Except
    \/ FinallyClause
    \/ FinishConvert

SpecConvert == InitConvert /\ [][NextConvert]_vars


\* ------------------------------------------------------ the range grammar
\* What the claims about the parser are stated against:
\* RANGE := TOKEN (',' TOKEN)*, TOKEN := NUMBER | NUMBER '-' NUMBER, stated on
\* the positions of the string rather than by splitting it.

\* The tokens of s: the maximal comma-free stretches <<a, b>> (b = a - 1 for
\* an empty one).
Tokens(s) ==
    { t \in (1..(Len(s) + 1)) \X (0..Len(s)) :
        /\ t[1] <= t[2] + 1
        /\ \A k \in t[1]..t[2] : s[k] # ","
        /\ (t[1] = 1 \/ s[t[1] - 1] = ",")
        /\ (t[2] = Len(s) \/ s[t[2] + 1] = ",") }

\* s[a..b] is a run of digits with blanks around it.
IsNumber(s, a, b) ==
    \E i \in a..b : \E j \in i..b :
        /\ \A k \in a..(i - 1) : s[k] = " "
        /\ \A k \in i..j : s[k] \in Digits
        /\ \A k \in (j + 1)..b : s[k] = " "

RECURSIVE Pow10(_)
Pow10(n) == IF n = 0 THEN 1 ELSE 10 * Pow10(n - 1)

RECURSIVE SumOver(_, _, _)
SumOver(s, ks, hi) ==
    IF ks = {} THEN 0
    ELSE LET k == CHOOSE x \in ks : TRUE
         IN  DigitValue(s[k]) * Pow10(hi - k) + SumOver(s, ks \ {k}, hi)

\* The number written in s[a..b]: each digit times the power of ten of its place.
NumberIn(s, a, b) ==
    LET ds == { k \in a..b : s[k] \in Digits }
    IN  SumOver(s, ds, CHOOSE hi \in ds : \A k \in ds : k <= hi)

\* The dash positions that make s[a..b] a pair A-B with A <= B.
PairDashes(s, a, b) ==
    { d \in a..b : /\ s[d] = "-"
                   /\ IsNumber(s, a, d - 1)
                   /\ IsNumber(s, d + 1, b)
                   /\ NumberIn(s, a, d - 1) <= NumberIn(s, d + 1, b) }

WellFormedToken(s, a, b) == IsNumber(s, a, b) \/ PairDashes(s, a, b) # {}

WellFormed(s) == \A t \in Tokens(s) : WellFormedToken(s, t[1], t[2])

\* The zero-based indices a well-formed token stands for.
TokenIndices(s, a, b) ==
    IF IsNumber(s, a, b) THEN { NumberIn(s, a, b) - 1 }
    ELSE UNION { (NumberIn(s, a, d - 1) - 1)..(NumberIn(s, d + 1, b) - 1) :
                    d \in PairDashes(s, a, b) }

Denotation(s) == UNION { TokenIndices(s, t[1], t[2]) : t \in Tokens(s) }

\* A token that is a pair of numbers in the wrong order, such as "5-2".
ReversedPair(s, a, b) ==
    \E d \in a..b : /\ s[d] = "-"
                    /\ IsNumber(s, a, d - 1)
                    /\ IsNumber(s, d + 1, b)
                    /\ NumberIn(s, a, d - 1) > NumberIn(s, d + 1, b)

\* -------------------------------------------------------------------- claims
\* C1: for every well-formed range string _parse_page_range returns exactly
\* the zero-based indices its tokens stand for, whatever total_pages is, in
\* whatever order the tokens come and however often they repeat;
\* "1, 3-5, 8" gives {0, 2, 3, 4, 7}.
C1_ParseWellFormed ==
    (op = "_parse_page_range" /\ WellFormed(page_range)) =>
        /\ result = [status |-> "ok", pages |-> Denotation(page_range)]
        /\ (page_range = <<"1", ",", " ", "3", "-", "5", ",", " ", "8">>
                => result.pages = {0, 2, 3, 4, 7})

C1_Witness ==
    /\ op = "_parse_page_range"
    /\ page_range = <<"1", ",", " ", "3", "-", "5", ",", " ", "8">>
    /\ total_pages = 10
    /\ result.status = "ok"
    /\ result.pages = {0, 2, 3, 4, 7}

\* C2: _parse_page_range raises ValueError, and returns no set, for every
\* range string with a token that is not a number or a pair of numbers in
\* ascending order.
C2_ParseErrorOnMalformed ==
    (op = "_parse_page_range" /\ ~WellFormed(page_range)) =>
        result = [status |-> "ValueError", pages |-> {}]

\* C3: split_pdf outputs exactly the pages whose index is in the parsed set
\* and in [0, N), in ascending document order whatever the order of the
\* tokens; an index outside [0, N) is skipped with a warning and nothing
\* else; split_pdf raises only when the parser did; the set {0..N-1}
\* reproduces the document.
C3_SplitSelectsInOrder ==
    (op = "split_pdf") =>
        LET N      == Len(pdf_file)
            parsed == _parse_page_range(page_range, N)
            S      == result.selected
            valid  == S \cap (0..(N - 1))
            out    == result.doc
        IN  /\ (result.status = "ok") = (parsed.status = "ok")
            /\ result.status = "ok" =>
                 /\ S = parsed.pages
                 /\ Len(out) = Cardinality(valid)
                 /\ \A k \in 1..Len(out) :
                        /\ out[k].num - 1 \in valid
                        /\ out[k] = pdf_file[out[k].num]
                 /\ \A k \in 1..(Len(out) - 1) : out[k].num < out[k + 1].num
                 /\ { result.warned[k] : k \in 1..Len(result.warned) }
                        = { i + 1 : i \in S \ valid }
                 /\ Len(result.warned) = Cardinality(S \ valid)
                 /\ (S = 0..(N - 1) => out = pdf_file)

\* "3,0,1" on a two-page document: index 0 is kept, indices -1 and 2 are
\* skipped with warnings for pages 0 and 3.
C3_Witness ==
    /\ op = "split_pdf"
    /\ page_range = <<"3", ",", "0", ",", "1">>
    /\ Len(pdf_file) = 2
    /\ result.status = "ok"
    /\ result.selected = {-1, 0, 2}
    /\ result.doc = << pdf_file[1] >>
    /\ result.warned = << 0, 3 >>

\* C4: split_pdf fails with a validation error, and returns no document,
\* whenever no index of the parsed range lies in [0, pageCount).
C4_SplitRejectsEmptySelection ==
    (/\ op = "split_pdf"
     /\ _parse_page_range(page_range, Len(pdf_file)).status = "ok"
     /\ _parse_page_range(page_range, Len(pdf_file)).pages
            \cap (0..(Len(pdf_file) - 1)) = {})
        => result.status = "ValidationError"

\* C5: merge_pdfs fails with a validation error, and produces no document,
\* whenever it is called with fewer than two input documents.
C5_MergeRejectsFewerThanTwo ==
    (op = "merge_pdfs" /\ Len(pdf_files) < 2) =>
        result.status = "ValidationError"

\* The pages of the files before file i.
RECURSIVE PagesBefore(_, _)
PagesBefore(files, i) ==
    IF i <= 1 THEN 0 ELSE PagesBefore(files, i - 1) + Len(files[i - 1])

\* C6: the output of merge_pdfs holds every page of every input exactly
\* once, by position of the file in the list and then by page order within
\* the file; its page count is the sum of the inputs'; splitting it on the
\* indices {0..len(A)-1} of the first file A gives A's pages in A's order.
C6_MergeConcatenates ==
    (op \in {"merge_pdfs", "app_merge"} /\ result.status = "ok") =>
        LET out == result.doc
            n   == Len(pdf_files)
        IN  /\ Len(out) = PagesBefore(pdf_files, n + 1)
            /\ \A i \in 1..n : \A j \in 1..Len(pdf_files[i]) :
                   /\ out[PagesBefore(pdf_files, i) + j] = pdf_files[i][j]
                   /\ Cardinality({ k \in 1..Len(out) :
                                      out[k] = pdf_files[i][j] }) = 1
            /\ n >= 1 =>
                 SplitLoop(out, Sorted(0..(Len(pdf_files[1]) - 1))).pages
                     = pdf_files[1]

C6_Witness ==
    /\ op = "merge_pdfs"
    /\ Len(pdf_files) = 2
    /\ Len(pdf_files[1]) = 2
    /\ Len(pdf_files[2]) = 2
    /\ result.status = "ok"
    /\ result.doc = pdf_files[1] \o pdf_files[2]
    /\ SplitLoop(result.doc, Sorted({0, 1})).pages = pdf_files[1]

RotateOps == {"rotate_pdf_pages", "app_rotate", "rotate_again"}

\* The pages a successful call was to rotate: all of them without a range.
Targeted(i) ==
    \/ page_range = None
    \/ (i - 1) \in _parse_page_range(page_range, Len(pdf_file)).pages

\* C7: rotate_pdf_pages adds the angle to each targeted page's rotation
\* modulo 360, so the rotation attribute stays one of {0, 90, 180, 270}; a
\* page at 90 rotated by 180 ends at 270; rotating the same page by 180
\* twice returns its rotation attribute to the original value.
C7_RotationAddsModulo360 ==
    (op \in RotateOps /\ result.status = "ok") =>
        \A i \in 1..Len(result.doc) :
            /\ result.doc[i].rot \in Rotations
            /\ Targeted(i) =>
                 result.doc[i].rot = (pdf_file[i].rot + rotation) % 360
            /\ (/\ op = "rotate_again"
                /\ Targeted(i)
                /\ rotation = 180
                /\ previous.rotation = 180)
               => result.doc[i].rot = previous.pdf_file[i].rot

\* C8: rotate_pdf_pages rotates every page when page_range is None;
\* otherwise it rotates only the pages whose zero-based index is in the
\* parsed range set and leaves every other page's rotation unchanged,
\* ignoring indices outside the document; the output has the same pages in
\* the same order.
C8_RotateNoneOrParsedSet ==
    (op \in RotateOps /\ result.status = "ok") =>
        /\ Len(result.doc) = Len(pdf_file)
        /\ \A i \in 1..Len(pdf_file) :
             /\ result.doc[i].src = pdf_file[i].src
             /\ result.doc[i].num = pdf_file[i].num
             /\ IF Targeted(i)
                THEN (result.doc[i].rot - pdf_file[i].rot) % 360 = rotation
                ELSE result.doc[i].rot = pdf_file[i].rot

\* C8 as amended: every page is rotated when page_range is None or the
\* empty string; for any other range the call raises exactly when the
\* parser does, and otherwise rotates the pages whose zero-based index is in
\* the parsed set and no other, ignoring indices outside the document; the
\* output has the same pages in the same order.
C8_RotateAbsentOrParsedSet ==
    (op \in RotateOps /\ result.status # "warning") =>
        LET parsed == _parse_page_range(page_range, Len(pdf_file))
            absent == page_range = None \/ page_range = <<>>
        IN  /\ (result.status = "ok") = (absent \/ parsed.status = "ok")
            /\ result.status = "ok" =>
                 /\ Len(result.doc) = Len(pdf_file)
                 /\ \A i \in 1..Len(pdf_file) :
                      /\ result.doc[i].src = pdf_file[i].src
                      /\ result.doc[i].num = pdf_file[i].num
                      /\ IF absent \/ (i - 1) \in parsed.pages
                         THEN (result.doc[i].rot - pdf_file[i].rot) % 360
                                  = rotation
                         ELSE result.doc[i].rot = pdf_file[i].rot

\* "2,3" on a two-page document: page 2 is rotated, page 1 is not, and the
\* index past the end is ignored.
C8_Witness ==
    /\ op = "rotate_pdf_pages"
    /\ page_range = <<"2", ",", "3">>
    /\ Len(pdf_file) = 2
    /\ result.status = "ok"
    /\ result.doc[1] = pdf_file[1]
    /\ result.doc[2].rot = pdf_file[2].rot + rotation
    /\ Len(result.doc) = 2

CompressOps == {"compress_pdf", "compress_pdf_done"}

\* C9: compress_pdf replaces an image's data by the re-encoded JPEG data
\* only if that is strictly shorter, and keeps the data as it was otherwise;
\* so no image's data is ever longer than it was before the call.
C9_ReplacedOnlyIfSmaller ==
    (op \in CompressOps) =>
        /\ \A i \in ImageIds : images[i].size <= images[i].original
        /\ last.image # "none" =>
             /\ last.replaced =>
                  /\ ~last.codec_raised
                  /\ last.compressed < last.before
                  /\ images[last.image].size = last.compressed
             /\ ~last.replaced => images[last.image].size = last.before

\* An image was re-encoded to fewer bytes and replaced.
C9_Witness ==
    /\ op \in CompressOps
    /\ last.image # "none"
    /\ last.replaced
    /\ last.compressed < last.before
    /\ images[last.image].size = last.compressed
    /\ images[last.image].size < images[last.image].original

\* C10: compress_pdf visits each image resource exactly once even when
\* several pages reference it; images_found is the number of distinct image
\* resources some page references and images_compressed the number of
\* distinct resources replaced, so images_compressed <= images_found.
C10_EachResourceVisitedOnce ==
    (op = "compress_pdf_done") =>
        LET referenced ==
                UNION { { page_images[p][j] : j \in 1..Len(page_images[p]) } :
                        p \in 1..Len(page_images) }
        IN  /\ \A i \in referenced : images[i].visits = 1
            /\ result.images_found = Cardinality(referenced)
            /\ result.images_compressed =
                 Cardinality({ i \in ImageIds : images[i].replaced > 0 })
            /\ result.images_compressed <= result.images_found

\* The number of image references on the pages of a document.
RECURSIVE ReferenceCount(_)
ReferenceCount(refs) ==
    IF refs = <<>> THEN 0 ELSE Len(Head(refs)) + ReferenceCount(Tail(refs))

\* C11: an exception out of decoding or encoding one image does not end
\* compress_pdf: that image's data stays as it was and it is not counted in
\* images_compressed, a warning is logged, the loops go on with the next
\* image of the page or of a later page, and the call returns its document
\* once every image reference has had its iteration.
C11_FailureSkipsOnlyThatImage ==
    (op \in CompressOps) =>
        /\ last.codec_raised =>
             /\ ~last.replaced
             /\ last.warned
             /\ warnings >= 1
             /\ images[last.image].size = last.before
             /\ images_compressed = last.count_before
        /\ (op = "compress_pdf" /\ last.image # "none") =>
             cursor = NextPlace(page_images, last.place)
        /\ (op = "compress_pdf_done") =>
             /\ result.status = "ok"
             /\ images_found = ReferenceCount(page_images)
             /\ result.images_found = images_found

\* The codec raised on the first image on the first of two pages; the
\* image kept its data, the image of the second page was replaced after
\* it, and the call returned.
C11_Witness ==
    /\ op = "compress_pdf_done"
    /\ result.status = "ok"
    /\ Len(page_images) = 2
    /\ Len(page_images[1]) >= 1
    /\ Len(page_images[2]) >= 1
    /\ images[page_images[1][1]].failed = 1
    /\ images[page_images[1][1]].visits = 1
    /\ images[page_images[1][1]].size = images[page_images[1][1]].original
    /\ last.place[1] = 2
    /\ last.replaced
    /\ warnings >= 1
    /\ images_found = ReferenceCount(page_images)

\* C12: decrypt_pdf on an encrypted document, with a password that does not
\* unlock it, raises the reader's "not decrypted" error and returns no
\* stream, neither an empty document nor any other.
C12_WrongPasswordRaises ==
    (op = "decrypt_pdf" /\ file.encrypted /\ password # file.password) =>
        /\ result.status = "FileNotDecryptedError"
        /\ ~result.returned
        /\ result.error_logged

\* decrypt_pdf was called on a document of two pages with a password other
\* than the one that unlocks it, and raised.
C12_Witness ==
    /\ op = "decrypt_pdf"
    /\ file.encrypted
    /\ Len(file.pages) = 2
    /\ password # file.password
    /\ result.status = "FileNotDecryptedError"
    /\ ~result.returned

\* C13: a decrypt_pdf that succeeds returns an unencrypted document with
\* the pages of its input in their order; decrypt_pdf of what encrypt_pdf
\* made of a document D with a non-empty password, called with that
\* password, succeeds with D's pages in D's order and no encryption; and
\* decrypt_pdf of a document that is not encrypted logs a warning and
\* returns its pages as a plain document whatever the password.
C13_DecryptReturnsThePages ==
    (op = "decrypt_pdf") =>
        /\ result.status = "ok" =>
             /\ result.returned
             /\ ~result.doc.encrypted
             /\ result.doc.pages = file.pages
        /\ (made_from # NoSource /\ password = made_from.password) =>
             /\ result.status = "ok"
             /\ ~result.doc.encrypted
             /\ result.doc.pages = made_from.pages
        /\ ~file.encrypted =>
             /\ result.status = "ok"
             /\ result.warned
             /\ result.doc = Plain(file.pages)

\* A document of two pages went through encrypt_pdf and, with the same
\* password, through decrypt_pdf, and came back with its two pages in order
\* and no encryption.
C13_Witness ==
    /\ op = "decrypt_pdf"
    /\ made_from # NoSource
    /\ Len(made_from.pages) = 2
    /\ file.encrypted
    /\ password = made_from.password
    /\ result.status = "ok"
    /\ ~result.warned
    /\ ~result.doc.encrypted
    /\ result.doc.pages = made_from.pages

ConvertOps == {"convert_images_to_pdf", "convert_images_to_pdf_done"}

\* C14: convert_images_to_pdf removes the temporary file of an image before
\* it goes on to the next image and before it returns or raises: between
\* iterations and after the call no temporary file it made exists, whether
\* the iteration ended normally or a call after mkstemp raised; and an
\* exception in an iteration ends the call with that exception raised
\* again, no further image processed and no PDF returned.
C14_TempFilesRemoved ==
    (op \in ConvertOps) =>
        /\ Cardinality(temp_files) <= 1
        /\ pc \in {"for", "try", "returned", "raised"} => temp_files = {}
        /\ pending # "none" => pc \in {"except", "finally", "raised"}
        /\ pc = "raised" =>
             /\ pending # "none"
             /\ result.status = pending
             /\ ~result.returned
        /\ pc = "returned" =>
             /\ pending = "none"
             /\ result.returned
             /\ result.pages = Len(image_files)
             /\ Cardinality(made) = Len(image_files)

\* The first image was drawn and its file removed; drawImage raised on the
\* second after its file was made; the call raised and neither file exists.
C14_Witness ==
    /\ op = "convert_images_to_pdf_done"
    /\ pc = "raised"
    /\ index = 2
    /\ shown_pages = 1
    /\ Cardinality(made) = 2
    /\ temp_img_path \in made
    /\ pending = "drawImage"
    /\ temp_files = {}
    /\ ~result.returned

=============================================================================
